---- MODULE Spec2Model ----
(***************************************************************************)
(* The three-stage pipeline of main.go: generateGalleryURLs (URL Source),  *)
(* downloadGalleryHTML (Page Fetcher, with parseForPic), downloadPic (the  *)
(* download workers) and httpDo, with the interrupt context.               *)
(*                                                                         *)
(* Strings are TLA+ strings; fmt.Sprintf is modelled by concatenation.     *)
(* The web site and the file system are the environment: what a page      *)
(* holds and whether a call fails is chosen nondeterministically.          *)
(***************************************************************************)
EXTENDS Integers, Sequences, FiniteSets, TLC

(* ---- bounds of the model ---- *)
\* chapters are drawn from 1..MaxChapter (main.go passes 1..16)
MaxChapter == 2
\* a gallery page holds MaxPics images, or none
MaxPics == 3
\* at most MaxFaults file system or network failures hit the downloads of a run
MaxFaults == 1

(* ---- program constants ---- *)
worker == 5
UrlCap == 3
PicCap == 10
MaxCaption == 64

VARIABLES
    cancelled,   \* ctx.Done() is closed (the interrupt has arrived)
    chapters,    \* the chapters slice main builds
    genPc,       \* generateGalleryURLs' goroutine: "check", "send1", "send2", "closed"
    genIdx,      \* index of the chapter the range loop is at (1-based)
    urls,        \* the urls channel's buffer
    urlsClosed,  \* close(urls) has run
    emitted,     \* every value sent on urls so far, in order
    fetPc,       \* downloadGalleryHTML's goroutine: "range", "select", "drain", "done"
    fetUrl,      \* the url of the current iteration
    nFetched,    \* how many urls the range loop has received so far
    fetC,        \* httpDo's channel c for the page round trip (buffer of 1)
    pgPc,        \* the page round trip goroutine: "idle", "do", "push"
    pgPics,      \* the Pictures the handler has still to send on picChan
    pageDoc,     \* what the url of the iteration under way resolved to
    pagePushed,  \* Pictures sent on picChan in the iteration under way
    pageErrLogs, \* log.Printf calls of the Page Fetcher in its latest iteration
    picChan,     \* the picChan channel's buffer
    picClosed,   \* close(picChan) has run
    pushed,      \* every Picture sent on picChan so far, in order
    mainPc,      \* main: "loop" (the for loop and wg.Wait), "exited"
    mainI,       \* main's loop variable i = number of downloadPic calls made
    wgCount,     \* the WaitGroup counter
    dirState,    \* the download directory: "absent", "present"
    wPc,         \* downloadPic call w: "init", "range", "check", "select", "drain", "done"
    wPic,        \* the Picture p call w holds (NoPic when none)
    wFile,       \* the name of the file call w has open ("" when none)
    wC,          \* httpDo's channel c for call w's round trip
    dlPc,        \* call w's round trip goroutine: "idle", "do"
    taken,       \* every <<w, Picture>> received from picChan so far, in order
    files,       \* names of the files os.Create has created
    downloaded,  \* how many "downloaded <fname>" lines have been logged
    dlErrLogs,   \* error log.Printf calls of call w since it last received a Picture
    faults       \* file system and network failures the downloads have met so far

genVars  == <<chapters, genPc, genIdx, urls, urlsClosed, emitted>>
fetVars  == <<fetPc, fetUrl, nFetched, fetC, pgPc, pgPics, pageDoc, pagePushed, pageErrLogs>>
picVars  == <<picChan, picClosed, pushed>>
mainVars == <<mainPc, mainI, wgCount>>
wVars    == <<dirState, wPc, wPic, wFile, wC, dlPc, taken, files, downloaded, dlErrLogs, faults>>
vars     == <<cancelled, genVars, fetVars, picVars, mainVars, wVars>>

Workers == 1..worker

\* The process lives until main returns; goroutines do not outlive it.
Running == mainPc # "exited"

(* ---- generateGalleryURLs ---- *)

urlConcept(chap) ==
    "https://www.starwars.com/series/the-mandalorian/chapter-" \o ToString(chap) \o "-concept-art-gallery"

urlConcept2(chap) ==
    "https://www.starwars.com/chapter-" \o ToString(chap) \o "-concept-art-gallery"

\* main's loop building the chapters slice from an inclusive range
ChapterRange(s, e) == [i \in 1..(IF e >= s THEN e - s + 1 ELSE 0) |-> s + i - 1]

\* top of the range loop: loop exit or the non-blocking ctx.Done() check;
\* a return runs the deferred close(urls)
GenCheck ==
    /\ Running
    /\ genPc = "check"
    /\ IF genIdx > Len(chapters) \/ cancelled
          THEN /\ genPc' = "closed"
               /\ urlsClosed' = TRUE
          ELSE /\ genPc' = "send1"
               /\ UNCHANGED urlsClosed
    /\ UNCHANGED <<cancelled, chapters, genIdx, urls, emitted, fetVars, picVars, mainVars, wVars>>

\* urls <- fmt.Sprintf(urlConcept, chap): blocks while the buffer is full
GenSend1 ==
    /\ Running
    /\ genPc = "send1"
    /\ Len(urls) < UrlCap
    /\ urls' = Append(urls, urlConcept(chapters[genIdx]))
    /\ emitted' = Append(emitted, urlConcept(chapters[genIdx]))
    /\ genPc' = "send2"
    /\ UNCHANGED <<cancelled, chapters, genIdx, urlsClosed, fetVars, picVars, mainVars, wVars>>

\* GenSend2 with the first template sent a second time
GenSend2SameTemplate ==
    /\ Running
    /\ genPc = "send2"
    /\ Len(urls) < UrlCap
    /\ urls' = Append(urls, urlConcept(chapters[genIdx]))
    /\ emitted' = Append(emitted, urlConcept(chapters[genIdx]))
    /\ genIdx' = genIdx + 1
    /\ genPc' = "check"
    /\ UNCHANGED <<cancelled, chapters, urlsClosed, fetVars, picVars, mainVars, wVars>>

\* urls <- fmt.Sprintf(urlConcept2, chap), then on to the next chapter
GenSend2 ==
    /\ Running
    /\ genPc = "send2"
    /\ Len(urls) < UrlCap
    /\ urls' = Append(urls, urlConcept2(chapters[genIdx]))
    /\ emitted' = Append(emitted, urlConcept2(chapters[genIdx]))
    /\ genIdx' = genIdx + 1
    /\ genPc' = "check"
    /\ UNCHANGED <<cancelled, chapters, urlsClosed, fetVars, picVars, mainVars, wVars>>

GenStep == GenCheck \/ GenSend1 \/ GenSend2

(* ---- the pages of the site (environment) ---- *)

RECURSIVE Rep(_, _)
\* the string of n copies of c
Rep(c, n) == IF n <= 0 THEN "" ELSE c \o Rep(c, n - 1)

\* the k-th image of the site, in the order the pages are fetched: the ids are all
\* distinct, the captions have lengths around the limit and repeat every third image
PageImage(k) ==
    [image   |-> "https://lumiere-a.akamaihd.net/" \o ToString(k) \o ".jpeg",
     caption |-> Rep("a", MaxCaption + (k % 3)),
     id      |-> "id" \o ToString(k)]

\* the images of a gallery of k images that follows n images of earlier pages
PageImages(n, k) == [i \in 1..k |-> PageImage(n + i)]

\* What parseForPic looks at in a parsed page: whether the script node (with a
\* child) is there, whether the error_page article is there, whether the regex
\* matches, whether the capture is JSON, whether mapstructure decodes it, and the
\* decoded data.Stack: a list of entries, each the list Data of its Images lists.
Doc(script, errorPage, match, json, decode, stack) ==
    [script |-> script, errorPage |-> errorPage, match |-> match,
     json |-> json, decode |-> decode, stack |-> stack]

NoDoc == Doc(FALSE, FALSE, FALSE, FALSE, FALSE, <<>>)

Docs(n) ==
    {Doc(FALSE, TRUE, FALSE, FALSE, FALSE, <<>>),     \* the site's error page
     Doc(FALSE, FALSE, FALSE, FALSE, FALSE, <<>>),    \* neither script nor error page
     Doc(TRUE, FALSE, FALSE, FALSE, FALSE, <<>>),     \* script without the pattern
     Doc(TRUE, FALSE, TRUE, FALSE, FALSE, <<>>),      \* capture is not JSON
     Doc(TRUE, FALSE, TRUE, TRUE, FALSE, <<>>),       \* JSON of another structure
     Doc(TRUE, FALSE, TRUE, TRUE, TRUE, <<<<>>, <<>>>>),          \* stack of 2 entries
     Doc(TRUE, FALSE, TRUE, TRUE, TRUE, <<<<>>, <<>>, <<>>>>)}    \* third entry without data
    \cup {Doc(TRUE, FALSE, TRUE, TRUE, TRUE, <<<<>>, <<>>, <<PageImages(n, k)>>>>) : k \in {0, MaxPics}}

(* ---- parseForPic ---- *)

Picture(url, caption, id) == [URL |-> url, Caption |-> caption, ID |-> id]

NoPic == Picture("", "", "")

\* the loop over data.Stack[2].Data[0].Images
ImagesToPics(images) ==
    [i \in 1..Len(images) |-> Picture(images[i].image, images[i].caption, images[i].id)]

\* data.Stack[2].Data[0] panics (index out of range) on a shorter stack or data list
NavigationPanics(doc) == Len(doc.stack) < 3 \/ Len(doc.stack[3]) < 1

\* What the deferred recover leaves parseForPic returning after a panic: it assigns
\* the local err, and the results are unnamed, so the caller gets their zero values.
RecoveredResult == [pics |-> <<>>, err |-> "nil"]

\* parseForPic's results (pics, err); err "nil" is the nil error
parseForPic(doc) ==
    IF ~doc.script
        THEN IF doc.errorPage
                THEN [pics |-> <<>>, err |-> "nil"]
                ELSE [pics |-> <<>>, err |-> "cannot find html node for pictures"]
    ELSE IF ~doc.match  THEN [pics |-> <<>>, err |-> "unable to find regex match"]
    ELSE IF ~doc.json   THEN [pics |-> <<>>, err |-> "json"]
    ELSE IF ~doc.decode THEN [pics |-> <<>>, err |-> "mapstructure"]
    ELSE IF NavigationPanics(doc) THEN RecoveredResult
    ELSE [pics |-> ImagesToPics(doc.stack[3][1]), err |-> "nil"]

(* ---- downloadGalleryHTML ---- *)

Page(kind, doc) == [kind |-> kind, doc |-> doc]

\* ErrLogs with no error ever logged
ErrLogsNothing(err) == 0

\* the log.Printf of an iteration whose err is not nil
ErrLogs(err) == IF err = "nil" THEN 0 ELSE 1

\* for url := range urls: receive the next url, build the request and enter httpDo
\* (which starts the round trip goroutine); a request that cannot be built is
\* logged and the loop continues
FetReceive ==
    /\ Running
    /\ fetPc = "range"
    /\ Len(urls) > 0
    /\ fetUrl' = Head(urls)
    /\ urls' = Tail(urls)
    /\ nFetched' = nFetched + 1
    /\ pagePushed' = 0
    /\ \E reqOk \in BOOLEAN :
          IF reqOk
             THEN /\ fetPc' = "select"
                  /\ pgPc' = "do"
                  /\ pageDoc' = Page("pending", NoDoc)
                  /\ pageErrLogs' = 0
             ELSE /\ fetPc' = "range"
                  /\ pgPc' = "idle"
                  /\ pageDoc' = Page("none", NoDoc)
                  /\ pageErrLogs' = 1
    /\ UNCHANGED <<cancelled, chapters, genPc, genIdx, urlsClosed, emitted,
                   fetC, pgPics, picVars, mainVars, wVars>>

\* FetClose leaving the loop as soon as urls is empty
FetCloseOnEmpty ==
    /\ Running
    /\ fetPc = "range"
    /\ Len(urls) = 0
    /\ fetPc' = "done"
    /\ picClosed' = TRUE
    /\ UNCHANGED <<cancelled, genVars, fetUrl, nFetched, fetC, pgPc, pgPics, pageDoc,
                   pagePushed, pageErrLogs, picChan, pushed, mainVars, wVars>>

\* the range loop ends on a closed and drained urls; the deferred close(picChan) runs
FetClose ==
    /\ Running
    /\ fetPc = "range"
    /\ Len(urls) = 0
    /\ urlsClosed
    /\ fetPc' = "done"
    /\ picClosed' = TRUE
    /\ UNCHANGED <<cancelled, genVars, fetUrl, nFetched, fetC, pgPc, pgPics, pageDoc,
                   pagePushed, pageErrLogs, picChan, pushed, mainVars, wVars>>

\* what the handler does with the round trip's result up to its first send:
\* returns the error, or parses and starts sending the Pictures
PgHandle(page, res) ==
    /\ pageDoc' = page
    /\ IF res.err = "nil" /\ Len(res.pics) > 0
          THEN /\ pgPc' = "push"
               /\ pgPics' = res.pics
               /\ UNCHANGED fetC
          ELSE /\ pgPc' = "idle"
               /\ pgPics' = <<>>
               /\ fetC' = Append(fetC, res.err)

\* the round trip goroutine: http.DefaultClient.Do, then the handler; a request
\* whose context is done fails in Do
PgDo ==
    /\ Running
    /\ pgPc = "do"
    /\ \/ PgHandle(Page("neterr", NoDoc), [pics |-> <<>>, err |-> "net"])
       \/ /\ ~cancelled
          /\ PgHandle(Page("htmlerr", NoDoc), [pics |-> <<>>, err |-> "html"])
       \/ /\ ~cancelled
          /\ \E doc \in Docs(Len(pushed)) : PgHandle(Page("doc", doc), parseForPic(doc))
    /\ UNCHANGED <<cancelled, genVars, fetPc, fetUrl, nFetched, pagePushed, pageErrLogs,
                   picVars, mainVars, wVars>>

\* picChan <- pic: blocks while the buffer is full; after the last one the handler
\* returns nil, which the goroutine sends on c
PgPush ==
    /\ Running
    /\ pgPc = "push"
    /\ Len(picChan) < PicCap
    /\ picChan' = Append(picChan, Head(pgPics))
    /\ pushed' = Append(pushed, Head(pgPics))
    /\ pagePushed' = pagePushed + 1
    /\ pgPics' = Tail(pgPics)
    /\ IF Len(pgPics) = 1
          THEN pgPc' = "idle" /\ fetC' = Append(fetC, "nil")
          ELSE UNCHANGED <<pgPc, fetC>>
    /\ UNCHANGED <<cancelled, genVars, fetPc, fetUrl, nFetched, pageDoc, pageErrLogs,
                   picClosed, mainVars, wVars>>

\* httpDo returning the handler's result on both branches of its select
HttpDoReturnsHandlerResult(pc, c) == Head(c)

\* What httpDo returns once it has received from c: ctx.Err() on the ctx.Done()
\* branch (pc "drain"), the value received on the other (pc "select")
HttpDoReturn(pc, c) == IF pc = "drain" THEN "context canceled" ELSE Head(c)

\* httpDo's select for the page: ctx.Done() or the handler's result (either, when
\* both are ready); the result is returned, logged when not nil, and the loop continues
FetSelect ==
    /\ Running
    /\ fetPc = "select"
    /\ \/ /\ cancelled
          /\ fetPc' = "drain"
          /\ UNCHANGED <<fetC, pageDoc, pagePushed, pageErrLogs>>
       \/ /\ Len(fetC) > 0
          /\ fetC' = Tail(fetC)
          /\ pageErrLogs' = pageErrLogs + ErrLogs(HttpDoReturn(fetPc, fetC))
          /\ pageDoc' = Page("none", NoDoc)
          /\ pagePushed' = 0
          /\ fetPc' = "range"
    /\ UNCHANGED <<cancelled, genVars, fetUrl, nFetched, pgPc, pgPics,
                   picVars, mainVars, wVars>>

\* FetDrain returning ctx.Err() without the receive from c
FetDrainNoWait ==
    /\ Running
    /\ fetPc = "drain"
    /\ fetC' = IF Len(fetC) > 0 THEN Tail(fetC) ELSE fetC
    /\ pageErrLogs' = pageErrLogs + ErrLogs(HttpDoReturn(fetPc, fetC))
    /\ pageDoc' = Page("none", NoDoc)
    /\ pagePushed' = 0
    /\ fetPc' = "range"
    /\ UNCHANGED <<cancelled, genVars, fetUrl, nFetched, pgPc, pgPics,
                   picVars, mainVars, wVars>>

\* httpDo's ctx.Done() branch: <-c waits for the round trip, then ctx.Err() is
\* returned, logged, and the loop continues
FetDrain ==
    /\ Running
    /\ fetPc = "drain"
    /\ Len(fetC) > 0
    /\ fetC' = Tail(fetC)
    /\ pageErrLogs' = pageErrLogs + ErrLogs(HttpDoReturn(fetPc, fetC))
    /\ pageDoc' = Page("none", NoDoc)
    /\ pagePushed' = 0
    /\ fetPc' = "range"
    /\ UNCHANGED <<cancelled, genVars, fetUrl, nFetched, pgPc, pgPics,
                   picVars, mainVars, wVars>>

FetStep == FetReceive \/ FetClose \/ FetSelect \/ FetDrain

PgStep == PgDo \/ PgPush

(* ---- httpDo's callers in downloadPic, and main ---- *)

\* the cut of an over-long caption
TruncateCaption(caption) ==
    IF Len(caption) > MaxCaption THEN SubSeq(caption, 1, MaxCaption + 1) ELSE caption

\* FileName leaving the ID out of the name
FileNameWithoutID(caption, id) == "download" \o "/" \o caption \o ".jpeg"

\* fmt.Sprintf("download%c%s_%s.jpeg", os.PathSeparator, p.Caption, p.ID)
FileName(caption, id) == "download" \o "/" \o caption \o "_" \o id \o ".jpeg"

\* a return path that does not run wg.Done()
WgDoneMissing(count) == count

\* the deferred wg.Done()
WgDone(count) == count - 1

\* wg.Wait() returns when the counter is zero
WaitPasses(count) == count = 0

\* MkdirFatal taking ErrExist for a failure too
MkdirFatalOnExist(err) == err # "nil"

\* the condition under which downloadPic gives up on os.Mkdir's result
MkdirFatal(err) == err # "nil" /\ err # "exist"

\* os.Mkdir's possible results: the directory is there already, or it is made, or
\* it cannot be made
MkdirResults == IF dirState = "present" THEN {"exist"} ELSE {"nil", "perm"}

\* the environment's failure budget: a step on which a call fails counts one
Fault(failed) ==
    IF failed THEN faults < MaxFaults /\ faults' = faults + 1 ELSE UNCHANGED faults

\* One iteration of main's for loop: downloadPic(ctx, &wg, pics) is called on
\* main's own goroutine, so the iteration starts when the call before it has
\* returned. The call begins with os.Mkdir(downloadDir): a result other than nil
\* and ErrExist is logged and the call returns (running the deferred wg.Done).
MainCall ==
    /\ mainPc = "loop"
    /\ mainI < worker
    /\ mainI > 0 => wPc[mainI] = "done"
    /\ mainI' = mainI + 1
    /\ \E err \in MkdirResults :
          /\ dirState' = IF err = "nil" THEN "present" ELSE dirState
          /\ Fault(err \notin {"nil", "exist"})
          /\ IF MkdirFatal(err)
                THEN /\ wPc' = [wPc EXCEPT ![mainI + 1] = "done"]
                     /\ dlErrLogs' = [dlErrLogs EXCEPT ![mainI + 1] = @ + 1]
                     /\ wgCount' = WgDone(wgCount)
                ELSE /\ wPc' = [wPc EXCEPT ![mainI + 1] = "range"]
                     /\ UNCHANGED <<dlErrLogs, wgCount>>
    /\ UNCHANGED <<cancelled, genVars, fetVars, picVars, mainPc,
                   wPic, wFile, wC, dlPc, taken, files, downloaded>>

\* the loop is over when the last call has returned; wg.Wait() returns when the
\* counter is zero, then main returns and the process ends
MainWait ==
    /\ mainPc = "loop"
    /\ mainI = worker
    /\ wPc[mainI] = "done"
    /\ WaitPasses(wgCount)
    /\ mainPc' = "exited"
    /\ UNCHANGED <<cancelled, genVars, fetVars, picVars, mainI, wgCount, wVars>>

\* WReceive leaving the Picture in the channel for the next receive
WReceiveNoRemove(w) ==
    /\ Running
    /\ wPc[w] = "range"
    /\ Len(picChan) > 0
    /\ wPic' = [wPic EXCEPT ![w] = Head(picChan)]
    /\ taken' = Append(taken, <<w, Head(picChan)>>)
    /\ wPc' = [wPc EXCEPT ![w] = "check"]
    /\ dlErrLogs' = [dlErrLogs EXCEPT ![w] = 0]
    /\ UNCHANGED <<cancelled, genVars, fetVars, picVars, mainVars,
                   dirState, wFile, wC, dlPc, files, downloaded, faults>>

\* for p := range pics: receive the next Picture
WReceive(w) ==
    /\ Running
    /\ wPc[w] = "range"
    /\ Len(picChan) > 0
    /\ wPic' = [wPic EXCEPT ![w] = Head(picChan)]
    /\ picChan' = Tail(picChan)
    /\ taken' = Append(taken, <<w, Head(picChan)>>)
    /\ wPc' = [wPc EXCEPT ![w] = "check"]
    /\ dlErrLogs' = [dlErrLogs EXCEPT ![w] = 0]
    /\ UNCHANGED <<cancelled, genVars, fetVars, picClosed, pushed, mainVars,
                   dirState, wFile, wC, dlPc, files, downloaded, faults>>

\* the range loop ends on a closed and drained picChan; the call returns
WRangeEnd(w) ==
    /\ Running
    /\ wPc[w] = "range"
    /\ Len(picChan) = 0
    /\ picClosed
    /\ wPc' = [wPc EXCEPT ![w] = "done"]
    /\ wgCount' = WgDone(wgCount)
    /\ UNCHANGED <<cancelled, genVars, fetVars, picVars, mainPc, mainI,
                   dirState, wPic, wFile, wC, dlPc, taken, files, downloaded, dlErrLogs, faults>>

\* WCancelled going on with the loop (continue) where the code returns
WCancelledContinues(w) ==
    /\ Running
    /\ wPc[w] = "check"
    /\ cancelled
    /\ wPc' = [wPc EXCEPT ![w] = "range"]
    /\ UNCHANGED <<cancelled, genVars, fetVars, picVars, mainVars,
                   dirState, wPic, wFile, wC, dlPc, taken, files, downloaded, dlErrLogs, faults>>

\* the non-blocking ctx.Done() check after a receive: the call returns
WCancelled(w) ==
    /\ Running
    /\ wPc[w] = "check"
    /\ cancelled
    /\ wPc' = [wPc EXCEPT ![w] = "done"]
    /\ wgCount' = WgDone(wgCount)
    /\ UNCHANGED <<cancelled, genVars, fetVars, picVars, mainPc, mainI,
                   dirState, wPic, wFile, wC, dlPc, taken, files, downloaded, dlErrLogs, faults>>

\* WBegin with a failed Create or request ending the call, not the item
WBeginFailureExits(w) ==
    /\ Running
    /\ wPc[w] = "check"
    /\ ~cancelled
    /\ LET caption == TruncateCaption(wPic[w].Caption)
           fname   == FileName(caption, wPic[w].ID)
       IN  /\ wPic' = [wPic EXCEPT ![w].Caption = caption]
           /\ \E createOk \in BOOLEAN, reqOk \in BOOLEAN :
                 /\ files' = IF createOk THEN files \cup {fname} ELSE files
                 /\ Fault(~(createOk /\ reqOk))
                 /\ IF createOk /\ reqOk
                       THEN /\ wFile' = [wFile EXCEPT ![w] = fname]
                            /\ wPc' = [wPc EXCEPT ![w] = "select"]
                            /\ dlPc' = [dlPc EXCEPT ![w] = "do"]
                            /\ UNCHANGED <<dlErrLogs, wgCount>>
                       ELSE /\ wPc' = [wPc EXCEPT ![w] = "done"]
                            /\ wgCount' = WgDone(wgCount)
                            /\ dlErrLogs' = [dlErrLogs EXCEPT ![w] = @ + 1]
                            /\ UNCHANGED <<wFile, dlPc>>
    /\ UNCHANGED <<cancelled, genVars, fetVars, picVars, mainPc, mainI,
                   dirState, wC, taken, downloaded>>

\* the item's func literal up to httpDo's select: cut the caption, build the name,
\* os.Create, http.NewRequestWithContext, httpDo starting the round trip
\* goroutine; a failed Create or request is logged and ends the item (a created
\* file is closed by the deferred f.Close)
WBegin(w) ==
    /\ Running
    /\ wPc[w] = "check"
    /\ ~cancelled
    /\ LET caption == TruncateCaption(wPic[w].Caption)
           fname   == FileName(caption, wPic[w].ID)
       IN  /\ wPic' = [wPic EXCEPT ![w].Caption = caption]
           /\ \E createOk \in BOOLEAN, reqOk \in BOOLEAN :
                 /\ files' = IF createOk THEN files \cup {fname} ELSE files
                 /\ Fault(~(createOk /\ reqOk))
                 /\ IF createOk /\ reqOk
                       THEN /\ wFile' = [wFile EXCEPT ![w] = fname]
                            /\ wPc' = [wPc EXCEPT ![w] = "select"]
                            /\ dlPc' = [dlPc EXCEPT ![w] = "do"]
                            /\ UNCHANGED dlErrLogs
                       ELSE /\ wPc' = [wPc EXCEPT ![w] = "range"]
                            /\ dlErrLogs' = [dlErrLogs EXCEPT ![w] = @ + 1]
                            /\ UNCHANGED <<wFile, dlPc>>
    /\ UNCHANGED <<cancelled, genVars, fetVars, picVars, mainVars,
                   dirState, wC, taken, downloaded>>

\* the round trip goroutine of a download: http.DefaultClient.Do, then the
\* handler: it returns Do's error (a request whose context is done fails in Do) or
\* io.Copy's error, or logs "downloaded <fname>" and returns nil; the result is
\* sent on c
DlRun(w) ==
    /\ Running
    /\ dlPc[w] = "do"
    /\ dlPc' = [dlPc EXCEPT ![w] = "idle"]
    /\ \/ /\ wC' = [wC EXCEPT ![w] = Append(@, "net")]
          /\ Fault(~cancelled)
          /\ UNCHANGED downloaded
       \/ /\ ~cancelled
          /\ wC' = [wC EXCEPT ![w] = Append(@, "copy")]
          /\ Fault(TRUE)
          /\ UNCHANGED downloaded
       \/ /\ ~cancelled
          /\ wC' = [wC EXCEPT ![w] = Append(@, "nil")]
          /\ downloaded' = downloaded + 1
          /\ UNCHANGED faults
    /\ UNCHANGED <<cancelled, genVars, fetVars, picVars, mainVars,
                   dirState, wPc, wPic, wFile, taken, files, dlErrLogs>>

\* httpDo's select for a download; on return the error is logged when not nil,
\* the deferred f.Close runs and the loop continues
WSelect(w) ==
    /\ Running
    /\ wPc[w] = "select"
    /\ \/ /\ cancelled
          /\ wPc' = [wPc EXCEPT ![w] = "drain"]
          /\ UNCHANGED <<wC, wFile, wPic, dlErrLogs>>
       \/ /\ Len(wC[w]) > 0
          /\ wC' = [wC EXCEPT ![w] = Tail(@)]
          /\ dlErrLogs' = [dlErrLogs EXCEPT ![w] = @ + ErrLogs(HttpDoReturn(wPc[w], wC[w]))]
          /\ wFile' = [wFile EXCEPT ![w] = ""]
          /\ wPic' = [wPic EXCEPT ![w] = NoPic]
          /\ wPc' = [wPc EXCEPT ![w] = "range"]
    /\ UNCHANGED <<cancelled, genVars, fetVars, picVars, mainVars,
                   dirState, dlPc, taken, files, downloaded, faults>>

\* WDrain returning ctx.Err() without the receive from c
WDrainNoWait(w) ==
    /\ Running
    /\ wPc[w] = "drain"
    /\ wC' = [wC EXCEPT ![w] = IF Len(@) > 0 THEN Tail(@) ELSE @]
    /\ dlErrLogs' = [dlErrLogs EXCEPT ![w] = @ + ErrLogs(HttpDoReturn(wPc[w], wC[w]))]
    /\ wFile' = [wFile EXCEPT ![w] = ""]
    /\ wPic' = [wPic EXCEPT ![w] = NoPic]
    /\ wPc' = [wPc EXCEPT ![w] = "range"]
    /\ UNCHANGED <<cancelled, genVars, fetVars, picVars, mainVars,
                   dirState, dlPc, taken, files, downloaded, faults>>

\* httpDo's ctx.Done() branch for a download: <-c, then ctx.Err() is returned
WDrain(w) ==
    /\ Running
    /\ wPc[w] = "drain"
    /\ Len(wC[w]) > 0
    /\ wC' = [wC EXCEPT ![w] = Tail(@)]
    /\ dlErrLogs' = [dlErrLogs EXCEPT ![w] = @ + ErrLogs(HttpDoReturn(wPc[w], wC[w]))]
    /\ wFile' = [wFile EXCEPT ![w] = ""]
    /\ wPic' = [wPic EXCEPT ![w] = NoPic]
    /\ wPc' = [wPc EXCEPT ![w] = "range"]
    /\ UNCHANGED <<cancelled, genVars, fetVars, picVars, mainVars,
                   dirState, dlPc, taken, files, downloaded, faults>>

MainStep == MainCall \/ MainWait

WStep(w) ==
    \/ WReceive(w) \/ WRangeEnd(w) \/ WCancelled(w)
    \/ WBegin(w) \/ WSelect(w) \/ WDrain(w)

(* ---- the interrupt ---- *)

\* signal.NotifyContext: os.Interrupt closes ctx.Done(), once
Interrupt ==
    /\ Running
    /\ ~cancelled
    /\ cancelled' = TRUE
    /\ UNCHANGED <<genVars, fetVars, picVars, mainVars, wVars>>

(* ---- the program ---- *)

\* main up to the first downloadPic call: the chapters, the context, the two
\* stages started, wg.Add(worker)
Init ==
    /\ cancelled = FALSE
    /\ chapters \in {ChapterRange(s, e) : s \in 1..MaxChapter, e \in 1..MaxChapter}
    /\ genPc = "check"
    /\ genIdx = 1
    /\ urls = <<>>
    /\ urlsClosed = FALSE
    /\ emitted = <<>>
    /\ fetPc = "range"
    /\ fetUrl = ""
    /\ nFetched = 0
    /\ fetC = <<>>
    /\ pgPc = "idle"
    /\ pgPics = <<>>
    /\ pageDoc = Page("none", NoDoc)
    /\ pagePushed = 0
    /\ pageErrLogs = 0
    /\ picChan = <<>>
    /\ picClosed = FALSE
    /\ pushed = <<>>
    /\ mainPc = "loop"
    /\ mainI = 0
    /\ wgCount = worker
    /\ dirState = "absent"
    /\ wPc = [w \in Workers |-> "init"]
    /\ wPic = [w \in Workers |-> NoPic]
    /\ wFile = [w \in Workers |-> ""]
    /\ wC = [w \in Workers |-> <<>>]
    /\ dlPc = [w \in Workers |-> "idle"]
    /\ taken = <<>>
    /\ files = {}
    /\ downloaded = 0
    /\ dlErrLogs = [w \in Workers |-> 0]
    /\ faults = 0

\* every step of the program itself (all but the interrupt)
Program ==
    \/ GenStep
    \/ FetStep
    \/ PgStep
    \/ MainStep
    \/ \E w \in Workers : WStep(w)
    \/ \E w \in Workers : DlRun(w)

Next == Program \/ Interrupt

Spec == Init /\ [][Next]_vars

\* the Go scheduler runs every goroutine that can take a step, and every HTTP
\* round trip ends
FairSpec == Spec /\ WF_vars(Program)

(* ======================= properties ======================= *)

(* ---- C1 ---- *)

\* the k-th URL of the stream for the chapters s, s+1, ...: chapter-major, the
\* first template before the second
ExpectedURL(s, k) ==
    IF k % 2 = 1 THEN urlConcept(s + (k - 1) \div 2) ELSE urlConcept2(s + (k - 1) \div 2)

IsPrefix(a, b) == Len(a) <= Len(b) /\ \A k \in 1..Len(a) : a[k] = b[k]

\* C1: the URLs sent so far are the first ones of the chapter-major,
\* template-minor sequence of the range, and when the stream has been closed
\* without a cancellation exactly 2 * (e - s + 1) of them have been sent.
C1_UrlsInOrder ==
    LET n == Len(chapters)
        s == IF n > 0 THEN chapters[1] ELSE 1
        e == IF n > 0 THEN chapters[n] ELSE 0
    IN  /\ IsPrefix(emitted, [k \in 1..(2 * n) |-> ExpectedURL(s, k)])
        /\ urlsClosed /\ ~cancelled => Len(emitted) = 2 * (e - s + 1)
        /\ urlsClosed => genPc = "closed"

\* the stream of a range of two chapters is closed, complete, without cancellation
C1_Witness ==
    /\ urlsClosed
    /\ ~cancelled
    /\ Len(chapters) = 2
    /\ Len(emitted) = 4

(* ---- C2 ---- *)

\* C2: once cancellation has fired, the URL Source is never blocked: until it has
\* closed its stream it always has a step of its own to take, whatever the
\* consumer does (violated: its sends do not watch ctx.Done()).
C2_SourceNotBlockedAfterCancel ==
    cancelled /\ Running /\ genPc # "closed" => ENABLED GenStep

(* ---- C3 ---- *)

\* C3: once cancellation has fired, the page handler at its send on picChan and a
\* worker at its receive from picChan always have a step of their own to take,
\* whatever the peer stage does (violated: neither watches ctx.Done()).
C3_StagesNotBlockedAfterCancel ==
    cancelled /\ Running =>
        /\ pgPc = "push" => ENABLED PgPush
        /\ \A w \in Workers : wPc[w] = "range" => ENABLED (WReceive(w) \/ WRangeEnd(w))

(* ---- C4 ---- *)

AllWorkersReturned == \A w \in Workers : wPc[w] = "done"

\* C4: in every run, whatever is cancelled or fails, main passes wg.Wait and
\* exits, and it has not exited while a downloadPic call has yet to return.
C4_MainExitsAfterAllWorkers ==
    /\ <>(mainPc = "exited")
    /\ [](mainPc = "exited" => AllWorkersReturned /\ wgCount = 0)

\* main has exited in a run that was cancelled and met a failure
C4_Witness == mainPc = "exited" /\ cancelled /\ faults > 0

(* ---- C5 ---- *)

\* call w holds a Picture it has received and not finished with
Active(w) == wPc[w] \in {"check", "select", "drain"}

\* C5: the workers run concurrently: while one worker is busy with a Picture, a
\* worker that has not been started can be started (violated: main calls
\* downloadPic without "go", each call runs after the one before has returned).
C5_WorkersStartWhileOneIsBusy ==
    (Running /\ \E w, v \in Workers : Active(w) /\ wPc[v] = "init") => ENABLED MainCall

(* ---- C6 ---- *)

\* how many receives delivered the Picture p
TimesTaken(p) == Cardinality({j \in 1..Len(taken) : taken[j][2] = p})

\* C6: no Picture is ever received twice; and when all the calls have returned
\* in a run without cancellation or failure that put N > W Pictures on the
\* stream, every one was received exactly once, N downloads completed and N
\* files exist.
C6_EachPictureOnce ==
    /\ \A k \in 1..Len(pushed) : TimesTaken(pushed[k]) <= 1
    /\ (AllWorkersReturned /\ ~cancelled /\ faults = 0 /\ Len(pushed) > worker) =>
          /\ \A k \in 1..Len(pushed) : TimesTaken(pushed[k]) = 1
          /\ Len(taken) = Len(pushed)
          /\ downloaded = Len(pushed)
          /\ Cardinality(files) = Len(pushed)
          /\ wgCount = 0

\* all the calls have returned after more than W downloads, nothing failed
C6_Witness ==
    /\ AllWorkersReturned
    /\ ~cancelled
    /\ faults = 0
    /\ Len(pushed) > worker
    /\ downloaded = Len(pushed)

(* ---- C7 ---- *)

\* the page signals missing content: error_page article, no picture script node
IsNotFoundPage(page) == page.kind = "doc" /\ ~page.doc.script /\ page.doc.errorPage

\* the step on which the Page Fetcher's iteration for the current url ends
IterationEnds == fetPc \in {"select", "drain"} /\ fetPc' = "range"

\* C7: the iteration of a not-found page ends with no Picture sent, no error
\* logged, and the loop going on (violated when cancellation wins httpDo's
\* select: ctx.Err() is logged for the page, see C13).
C7_NotFoundIsSilent ==
    [][IsNotFoundPage(pageDoc) /\ IterationEnds => pagePushed = 0 /\ pageErrLogs' = 0]_vars

(* ---- C8 ---- *)

\* the decoded data has no Stack[2].Data[0]
IsShapeFailure(doc) ==
    /\ doc.script /\ doc.match /\ doc.json /\ doc.decode
    /\ (Len(doc.stack) < 3 \/ doc.stack[3] = <<>>)

\* the page is one parseForPic is to report a hard error for
IsHardErrorPage(page) ==
    /\ page.kind = "doc"
    /\ \/ ~page.doc.script /\ ~page.doc.errorPage
       \/ page.doc.script /\ ~(page.doc.match /\ page.doc.json /\ page.doc.decode)
       \/ IsShapeFailure(page.doc)

\* C8: the iteration of a hard-error page ends with no Picture sent, exactly one
\* error logged, and the loop going on to the next url (violated for a shape
\* failure, which is not reported as an error, see C9).
C8_HardErrorLoggedOnce ==
    [][IsHardErrorPage(pageDoc) /\ IterationEnds =>
           pagePushed = 0 /\ pageErrLogs' = 1 /\ fetPc' = "range"]_vars

(* ---- C9 ---- *)

\* C9: the handler of a page whose decoded data has no Stack[2].Data[0] returns
\* a non-nil error (violated: the recovered panic leaves parseForPic returning
\* nil, nil, the result of a not-found page).
C9_ShapeFailureIsAnError ==
    (pageDoc.kind = "doc" /\ IsShapeFailure(pageDoc.doc) /\ Len(fetC) > 0) =>
        Head(fetC) # "nil"

(* ---- C10 ---- *)

\* the Picture call w received last, as it came from the stream
LastTaken(w) ==
    LET j == CHOOSE j \in 1..Len(taken) :
                 /\ taken[j][1] = w
                 /\ \A k \in (j + 1)..Len(taken) : taken[k][1] # w
    IN  taken[j][2]

\* the part of a file name between "download/" and "_<id>.jpeg"
CaptionPortion(fname, id) ==
    SubSeq(fname, Len("download/") + 1, Len(fname) - Len("_" \o id \o ".jpeg"))

\* C10: the caption portion of the name of the file a worker has open is the
\* Picture's Caption cut to 64 characters when it is longer, the Caption itself
\* otherwise (violated: the cut keeps 64 + 1 characters).
C10_CaptionPortionAtMost64 ==
    \A w \in Workers : wFile[w] # "" =>
        LET p       == LastTaken(w)
            portion == CaptionPortion(wFile[w], p.ID)
        IN  /\ Len(portion) <= 64
            /\ portion = IF Len(p.Caption) > 64 THEN SubSeq(p.Caption, 1, 64) ELSE p.Caption

(* ---- C11 ---- *)

\* the name of the file a worker writes the Picture p to
NameOf(p) == FileName(TruncateCaption(p.Caption), p.ID)

\* the Pictures p and q have the same Caption and different IDs
SameCaptionOtherID(p, q) == p.Caption = q.Caption /\ p.ID # q.ID

\* C11: any two Pictures received with identical Captions and distinct IDs get
\* different file names; the file a worker has open is the one named for the
\* Picture it holds, so it is the file of no other such Picture; and when all the
\* calls have returned in a run without cancellation or failure, the file of
\* every Picture received exists.
C11_SameCaptionDistinctFiles ==
    /\ \A j, k \in 1..Len(taken) :
           SameCaptionOtherID(taken[j][2], taken[k][2]) =>
               NameOf(taken[j][2]) # NameOf(taken[k][2])
    /\ \A w \in Workers : wFile[w] # "" =>
           /\ wFile[w] = NameOf(LastTaken(w))
           /\ \A j \in 1..Len(taken) :
                  SameCaptionOtherID(taken[j][2], LastTaken(w)) => wFile[w] # NameOf(taken[j][2])
    /\ (AllWorkersReturned /\ ~cancelled /\ faults = 0) =>
           /\ \A j \in 1..Len(taken) : NameOf(taken[j][2]) \in files
           /\ Cardinality(files) = Len(taken)

\* two Pictures with the same Caption and different IDs have both been downloaded
C11_Witness ==
    /\ downloaded >= 4
    /\ \E j, k \in 1..Len(taken) :
           /\ SameCaptionOtherID(taken[j][2], taken[k][2])
           /\ NameOf(taken[j][2]) \in files
           /\ NameOf(taken[k][2]) \in files
           /\ \A w \in Workers : wFile[w] = ""

(* ---- C12 ---- *)

\* the step on which httpDo returns to the Page Fetcher
PageHttpDoReturns == fetPc \in {"select", "drain"} /\ fetPc' = "range"

\* the step on which httpDo returns to call w
DownloadHttpDoReturns(w) == wPc[w] \in {"select", "drain"} /\ wPc'[w] = "range"

\* C12: a round trip goroutine runs only while its httpDo call is waiting for it;
\* on the step httpDo returns, on either branch, the goroutine has finished the
\* handler and put its result on c; and on the ctx.Done() branch httpDo returns
\* ctx.Err(), a non-nil error for the caller whatever the handler returned.
C12_HttpDoWaitsForRoundTrip ==
    /\ [](pgPc # "idle" => fetPc \in {"select", "drain"})
    /\ [](\A w \in Workers : dlPc[w] # "idle" => wPc[w] \in {"select", "drain"})
    /\ [][/\ PageHttpDoReturns =>
                /\ pgPc = "idle" /\ pgPics = <<>> /\ Len(fetC) = 1
                /\ fetPc = "drain" =>
                       /\ HttpDoReturn(fetPc, fetC) = "context canceled"
                       /\ pageErrLogs' = pageErrLogs + 1
            /\ \A w \in Workers : DownloadHttpDoReturns(w) =>
                /\ dlPc[w] = "idle" /\ Len(wC[w]) = 1
                /\ wPc[w] = "drain" =>
                       /\ HttpDoReturn(wPc[w], wC[w]) = "context canceled"
                       /\ dlErrLogs'[w] = dlErrLogs[w] + 1]_vars

\* httpDo is on its ctx.Done() branch for a page whose handler is still sending
\* Pictures, and for a download whose round trip has yet to end
C12_Witness ==
    /\ fetPc = "drain" /\ pgPc = "push" /\ pagePushed > 0
    /\ \E w \in Workers : wPc[w] = "drain" /\ dlPc[w] = "do"

(* ---- C13 ---- *)

\* C13: when httpDo returns the cancellation result (its ctx.Done() branch), the
\* caller logs no error for the item (violated: both callers log any non-nil
\* error, ctx.Err() included).
C13_CancellationNotLogged ==
    [][/\ (PageHttpDoReturns /\ fetPc = "drain") => pageErrLogs' = pageErrLogs
       /\ \A w \in Workers :
              (DownloadHttpDoReturns(w) /\ wPc[w] = "drain") => dlErrLogs'[w] = dlErrLogs[w]]_vars

(* ---- C14 ---- *)

\* call w got past os.Mkdir: it returned without a log, or it received a Picture
PassedMkdir(w) == dlErrLogs[w] = 0 \/ \E j \in 1..Len(taken) : taken[j][1] = w

\* the calls that returned on a failed os.Mkdir
MkdirFailures == Cardinality({w \in Workers : wPc[w] = "done" /\ ~PassedMkdir(w)})

\* the step on which call w logs an error for the Picture it holds
ItemFailureLogged(w) ==
    wPc[w] \in {"check", "select", "drain"} /\ dlErrLogs'[w] = dlErrLogs[w] + 1

\* C14: the step that logs a failure of a Picture leaves the worker at the top
\* of its loop, not returned; and a worker that got past os.Mkdir and has
\* returned in a run without cancellation left the stream closed and empty:
\* every Picture sent was received, and each one received was downloaded or had
\* its failure logged.
C14_ItemFailureEndsOnlyTheItem ==
    /\ [][\A w \in Workers : ItemFailureLogged(w) =>
              /\ wPc'[w] = "range"
              /\ wgCount' = wgCount
              /\ wFile'[w] = ""]_vars
    /\ [](\A w \in Workers : (wPc[w] = "done" /\ PassedMkdir(w) /\ ~cancelled) =>
              /\ picClosed /\ picChan = <<>>
              /\ Len(taken) = Len(pushed)
              /\ downloaded + (faults - MkdirFailures) = Len(taken))

\* the first call has completed a download after the failure of an earlier Picture
C14_Witness ==
    /\ ~cancelled
    /\ mainI = 1
    /\ faults = 1
    /\ wPc[1] = "select"
    /\ wC[1] = <<"nil">>
    /\ Len(taken) - downloaded = 1

(* ---- C15 ---- *)

\* the step on which main makes its next downloadPic call, up to the call's loop
CallStarts == mainI' = mainI + 1

\* C15: a downloadPic call that finds the directory there (ErrExist) or makes it
\* goes on to its loop with nothing logged; a call whose os.Mkdir fails
\* otherwise logs once, runs wg.Done and returns; such a call receives no
\* Picture, and main goes on with its loop.
C15_MkdirFailureEndsTheCall ==
    /\ [][CallStarts =>
              /\ (dirState = "present" \/ dirState' = "present") =>
                     /\ wPc'[mainI'] = "range"
                     /\ dlErrLogs'[mainI'] = dlErrLogs[mainI']
                     /\ wgCount' = wgCount
              /\ (dirState = "absent" /\ dirState' = "absent") =>
                     /\ wPc'[mainI'] = "done"
                     /\ dlErrLogs'[mainI'] = dlErrLogs[mainI'] + 1
                     /\ wgCount' = wgCount - 1
                     /\ taken' = taken
              /\ mainPc' = "loop"]_vars
    /\ [](\A w \in Workers : (wPc[w] = "done" /\ ~PassedMkdir(w)) =>
              /\ wPic[w] = NoPic
              /\ wFile[w] = "")

\* the first call returned on a failed os.Mkdir, the second made the directory
\* and the third found it there
C15_Witness ==
    /\ wPc[1] = "done" /\ ~PassedMkdir(1)
    /\ wPc[2] = "done" /\ PassedMkdir(2)
    /\ wPc[3] = "range"
    /\ dirState = "present"
    /\ wgCount = worker - 2

(* ---- C16 ---- *)

\* the step on which the Page Fetcher receives a url and cannot build its request
RequestFails == fetPc = "range" /\ nFetched' = nFetched + 1 /\ fetPc' = "range"

\* C16: the iteration of a url whose request cannot be built, or whose round
\* trip fails, ends with no Picture sent and one error logged, the loop going
\* on; and every Picture sent on picChan is the next one of the parse result of
\* the page just fetched, a parse that returned no error.
C16_FailedUrlYieldsNoPicture ==
    [][/\ RequestFails =>
              pushed' = pushed /\ pageErrLogs' = 1 /\ pgPc' = "idle"
       /\ (IterationEnds /\ pageDoc.kind = "neterr") =>
              pagePushed = 0 /\ pushed' = pushed /\ pageErrLogs' = 1 /\ fetPc' = "range"
       /\ pushed' # pushed =>
              /\ pageDoc.kind = "doc"
              /\ parseForPic(pageDoc.doc).err = "nil"
              /\ pagePushed < Len(parseForPic(pageDoc.doc).pics)
              /\ pushed' = Append(pushed, parseForPic(pageDoc.doc).pics[pagePushed + 1])]_vars

\* after a page that gave Pictures, the round trip of a later url has failed and
\* its result waits for httpDo's select, with more urls to come
C16_Witness ==
    /\ ~cancelled
    /\ pageDoc.kind = "neterr"
    /\ fetPc = "select"
    /\ fetC = <<"net">>
    /\ Len(pushed) > 0
    /\ Len(urls) > 0

(* ---- C17 ---- *)

\* the step on which the Page Fetcher receives the next url
NextUrlReceived == nFetched' = nFetched + 1

\* the step on which a page round trip is started
RoundTripStarts == pgPc # "do" /\ pgPc' = "do"

\* C17: the Page Fetcher receives its next url, and a round trip is started,
\* only when no round trip or handler is under way and none has a result
\* pending; and while a handler is blocked on a full picChan after the
\* cancellation, the Page Fetcher stays inside httpDo and can neither receive
\* the next url nor end its loop.
C17_PageFetcherIsSequential ==
    /\ [][(NextUrlReceived \/ RoundTripStarts) =>
              pgPc = "idle" /\ pgPics = <<>> /\ fetC = <<>>]_vars
    /\ [](pgPc # "idle" => fetPc \in {"select", "drain"} /\ fetC = <<>>)
    /\ []((cancelled /\ pgPc = "push" /\ Len(picChan) = PicCap) =>
              /\ fetPc \in {"select", "drain"}
              /\ ~ENABLED (FetReceive \/ FetClose \/ FetDrain))

\* the cancellation branch of httpDo waits for a handler that is blocked on a
\* full picChan, with urls closed and drained
C17_Witness ==
    /\ cancelled
    /\ fetPc = "drain"
    /\ pgPc = "push"
    /\ Len(picChan) = PicCap
    /\ urlsClosed /\ urls = <<>>

(* ---- C18 ---- *)

\* C18: a closed urls stays closed with its closer returned, so it is not closed
\* again and nothing more is sent on it; picChan is closed only with urls closed
\* and drained, the Page Fetcher's loop over and no handler running, and from
\* then on it stays closed, nothing is sent on it and no sender can run.
C18_ClosedOnceNoSendAfter ==
    /\ [](urlsClosed => genPc = "closed")
    /\ [](picClosed =>
              /\ urlsClosed /\ urls = <<>>
              /\ fetPc = "done"
              /\ pgPc = "idle" /\ pgPics = <<>> /\ fetC = <<>>
              /\ ~ENABLED (FetStep \/ PgStep))
    /\ [][urlsClosed => urlsClosed' /\ emitted' = emitted /\ genPc' = "closed"]_vars
    /\ [][picClosed => picClosed' /\ pushed' = pushed /\ fetPc' = "done" /\ pgPc' = "idle"]_vars

\* picChan has been closed in a run where httpDo returned on its cancellation
\* branch for a page whose handler sent Pictures
C18_Witness ==
    /\ picClosed
    /\ cancelled
    /\ pageErrLogs = 1
    /\ Len(pushed) = MaxPics

(* ---- C19 ---- *)

\* the step on which call w receives a Picture
Receives(w) == Len(taken') = Len(taken) + 1 /\ taken'[Len(taken')][1] = w

\* C19: the cancellation, once fired, stays; a worker that receives a Picture
\* after it is at its check; a worker at its check after the cancellation can
\* only return, and by then it has created no file, opened none and started no
\* round trip for that Picture; and a worker that has returned receives nothing
\* more. So each worker receives at most one Picture after the cancellation.
C19_AtMostOneMoreAfterCancel ==
    [][/\ cancelled => cancelled'
       /\ \A w \in Workers :
              /\ (cancelled /\ Receives(w)) => wPc'[w] = "check"
              /\ (cancelled /\ wPc[w] = "check") =>
                     /\ wPc'[w] \in {"check", "done"}
                     /\ ~Receives(w)
                     /\ files' = files
                     /\ wFile'[w] = "" /\ dlPc'[w] = "idle" /\ wC'[w] = <<>>
                     /\ wPc'[w] = "done" => wgCount' = wgCount - 1
              /\ wPc[w] = "done" => wPc'[w] = "done" /\ ~Receives(w)]_vars

\* a worker has returned at its check holding a Picture it made no file for,
\* with Pictures left on the stream
C19_Witness ==
    /\ cancelled
    /\ faults = 0
    /\ Len(picChan) > 0
    /\ \E w \in Workers :
           /\ wPc[w] = "done"
           /\ wPic[w] # NoPic
           /\ LastTaken(w) = wPic[w]
           /\ NameOf(wPic[w]) \notin files

(* ---- C20 ---- *)

\* C20: a worker has a file open exactly while it is inside httpDo for the
\* Picture of that file, so at the top of the loop and after its return it has
\* none; the round trip that copies into the file runs only while the file is
\* open; and the step that ends an item, on any path, leaves the file closed
\* with the round trip finished.
C20_FileClosedOnEveryPath ==
    /\ [](\A w \in Workers :
              /\ wFile[w] # "" <=> wPc[w] \in {"select", "drain"}
              /\ dlPc[w] = "do" => wFile[w] # ""
              /\ wFile[w] # "" => wFile[w] \in files)
    /\ [][\A w \in Workers :
              (wPc[w] \in {"check", "select", "drain"} /\ wPc'[w] \in {"range", "done"}) =>
                  /\ dlPc[w] = "idle" /\ dlPc'[w] = "idle"
                  /\ wFile'[w] = ""]_vars

\* an item has ended on httpDo's cancellation branch: its file was created and
\* is closed, and the error was logged
C20_Witness ==
    /\ cancelled
    /\ \E w \in Workers :
           /\ wPc[w] = "range"
           /\ dlErrLogs[w] = 1
           /\ wFile[w] = ""
           /\ NameOf(LastTaken(w)) \in files

====
